---- MODULE Spec2Model ----
(***************************************************************************)
(* A model of SerializedGraph (ts-serialize-closures): the encoder         *)
(* (serialize / add), the JSON boundary (toJSON / fromJSON) and the        *)
(* decoder (root / get / deserializeProperties), run as a stack machine    *)
(* over a small heap of JavaScript values.                                 *)
(***************************************************************************)
EXTENDS Integers, Sequences, FiniteSets, TLC

\* ------------------------------------------------------------------ bounds
\* Number of heap objects (arrays, objects, functions, dates, regexes).
MaxObj == 2
\* Size of the value graph: objects plus the references they hold.
MaxSize == 4
\* Reads of the root property on one graph.
MaxReads == 2

\* ------------------------------------------------------------------ values
\* A JavaScript value is a pair <<tag, n>>.  Primitives compare by value;
\* every other tag names an identity.
Undefined == <<"undefined", 0>>
Null == <<"null", 0>>
\* The primitive constant 1 (a number, a string or a boolean).
Prim == <<"prim", 1>>
\* A number that is not a value of the graph: an index read as a value.
Num(i) == <<"num", i>>
\* Object i of the heap handed to serialize.
Obj(i) == <<"obj", i>>
\* The fresh mapping returned by one call of function i's __closure (or the
\* empty mapping of line 81).
Clo(i) == <<"clo", i>>
\* Object.prototype, a well-known value of the runtime.
ObjectPrototype == <<"builtin", 0>>
\* Object n allocated by the decoder.
New(n) == <<"new", n>>

Tag(v) == v[1]
Id(v) == v[2]

Some(x) == <<x>>
None == <<>>

\* Property descriptor, as Object.getOwnPropertyDescriptor returns it.
Attr(key, style, value, g, s, c, w, e) ==
    [key |-> key, style |-> style, value |-> value, get |-> g, set |-> s,
     configurable |-> c, writable |-> w, enumerable |-> e]

PlainAttr(key, value) ==
    Attr(key, "data", value, Undefined, Undefined, TRUE, TRUE, TRUE)

\* A heap object.  Every kind has every field; a kind reads only its own.
Object(kind) ==
    [kind |-> kind, elems |-> <<>>, proto |-> ObjectPrototype, attrs |-> <<>>,
     hasClosure |-> FALSE, captured |-> <<>>, prototype |-> Undefined,
     source |-> 0, impl |-> Undefined, text |-> 0]

\* ------------------------------------------------- the values of a run
\* The values a reference of a heap of n objects may hold.
Targets(n) == {Null, Prim} \cup {Obj(i) : i \in 1..n}

Flags == BOOLEAN \X BOOLEAN \X BOOLEAN

\* An attribute is plain when serializeProperties would put it in refs.
IsPlain(a) ==
    a.style = "data" /\ a.configurable /\ a.writable /\ a.enumerable

References(n) == {Obj(i) : i \in 1..n}

\* The own attributes of one object, by size: none (0); a plain one named
\* "a" or "__closure" (1); one named "a" of any other descriptor, data or
\* accessor (2).  A function's __closure is the accessor of the closure
\* transform, never an attribute of the model.
AttrLists(n, size, kind) ==
    CASE size = 0 -> {<<>>}
      [] size = 1 ->
           {<<PlainAttr("a", v)>> : v \in Targets(n)}
           \cup (IF kind = "function" THEN {}
                 ELSE {<<PlainAttr("__closure", Prim)>>})
      [] size = 2 ->
           {<<Attr("a", "data", v, Undefined, Undefined, f[1], f[2], f[3])>> :
              v \in Targets(n), f \in Flags \ {<<TRUE, TRUE, TRUE>>}}
           \cup {<<Attr("a", "accessor", Undefined, gs[1], gs[2], f[1], FALSE, f[3])>> :
                   gs \in (({Undefined} \cup References(n))
                             \X ({Undefined} \cup References(n)))
                          \ {<<Undefined, Undefined>>},
                   f \in {x \in Flags : ~x[2]}}
      [] OTHER -> {}

\* 1 for a reference to a heap object, 0 for a well-known value.
Cost(v) == IF Tag(v) = "obj" THEN 1 ELSE 0

\* The objects of exactly the given size that refer to a heap of n objects:
\* an object counts 1, and so does every element, attribute (2 when not
\* plain), captured variable and reference to another heap object.
Shapes(n, size) ==
    LET arrays == {[Object("array") EXCEPT !.elems = e] :
                     e \in [1..(size - 1) -> Targets(n)]}
        objects ==
            UNION {{[Object("object") EXCEPT !.proto = p, !.attrs = al] :
                      al \in AttrLists(n, size - 1 - Cost(p), "object")} :
                     p \in {ObjectPrototype, Null} \cup References(n)}
        closures == {<<FALSE, <<>>>>, <<TRUE, <<>>>>}
                    \cup {<<TRUE, <<[key |-> "x", value |-> v]>>>> :
                            v \in Targets(n)}
        functions ==
            UNION {{[Object("function") EXCEPT
                       !.hasClosure = cp[1][1], !.captured = cp[1][2],
                       !.prototype = cp[2], !.attrs = al] :
                      al \in AttrLists(n, size - 1 - Len(cp[1][2]) - Cost(cp[2]),
                                       "function")} :
                     cp \in closures \X ({Undefined} \cup References(n))}
        leaves == IF size = 1 THEN {Object("date"), Object("regex")} ELSE {}
    IN arrays \cup objects \cup functions \cup leaves

\* The heap objects an object refers to.
Refs(o) ==
    {o.elems[i] : i \in 1..Len(o.elems)}
    \cup {o.proto, o.prototype}
    \cup {o.captured[i].value : i \in 1..Len(o.captured)}
    \cup UNION {{o.attrs[i].value, o.attrs[i].get, o.attrs[i].set} :
                  i \in 1..Len(o.attrs)}

RECURSIVE Reach(_, _)
Reach(h, S) ==
    LET T == S \cup {v \in UNION {Refs(h[Id(s)]) : s \in S} : Tag(v) = "obj"}
    IN IF T = S THEN S ELSE Reach(h, T)

\* Whether the inheritance chain from v ends within n links; the runtime
\* refuses a cyclic chain.
RECURSIVE ChainEnds(_, _, _)
ChainEnds(h, v, n) ==
    IF Tag(v) # "obj" THEN TRUE
    ELSE IF n = 0 THEN FALSE
    ELSE ChainEnds(h, h[Id(v)].proto, n - 1)

\* Inheritance chains end, a getter or a setter is a function, and
\* serialize reaches every object.
WellFormed(h) ==
    /\ \A i \in 1..Len(h) : ChainEnds(h, Obj(i), Len(h))
    /\ \A i \in 1..Len(h) : \A j \in 1..Len(h[i].attrs) :
          \A f \in {h[i].attrs[j].get, h[i].attrs[j].set} :
             f # Undefined => h[Id(f)].kind = "function"
    /\ Len(h) > 0 => Reach(h, {Obj(1)}) = {Obj(i) : i \in 1..Len(h)}

\* --------------------------------------------------------------- the state
VARIABLES
    heap,          \* the value graph handed to serialize: object i is heap[i]
    value,         \* the argument of serialize
    indexMap,      \* the graph's { element, index } pairs, in push order
    rootIndex,     \* the graph's root index, -1 as constructed
    contentArray,  \* the graph's content records: index i is contentArray[i + 1]
    stack,         \* the activations of add or of get, innermost last
    pc,            \* where the caller of the graph is
    origin,        \* which graph object the fields belong to
    json,          \* the value toJSON returned
    objects,       \* the values get has allocated: New(n) is objects[n]
    result,        \* what the last read of root returned
    error,         \* what the last read of root threw, "" when nothing
    reads          \* the reads of root made on this graph

vars == <<heap, value, indexMap, rootIndex, contentArray, stack, pc, origin,
          json, objects, result, error, reads>>

\* ------------------------------------------------------------ the runtime
\* The registry of ./builtins: the well-known values and their names.
getNameOfBuiltin(v) ==
    IF v = ObjectPrototype THEN Some("Object.prototype") ELSE None

getBuiltinByName(name) ==
    IF name = "Object.prototype" THEN Some(ObjectPrototype) ELSE None

isPrimitive(v) == Tag(v) \in {"undefined", "null", "prim", "num"}

\* The object a reference of the value graph denotes.  The mapping a
\* __closure accessor returns is a fresh plain object of the captured
\* variables; without an accessor it is the empty object of line 81.
ObjectOf(h, v) ==
    IF Tag(v) = "obj" THEN h[Id(v)]
    ELSE [Object("object") EXCEPT
            !.attrs = [i \in 1..Len(h[Id(v)].captured) |->
                         PlainAttr(h[Id(v)].captured[i].key,
                                   h[Id(v)].captured[i].value)]]

isArray(h, v) == ~isPrimitive(v) /\ ObjectOf(h, v).kind = "array"
isFunction(h, v) == ~isPrimitive(v) /\ ObjectOf(h, v).kind = "function"
isDate(h, v) == ~isPrimitive(v) /\ ObjectOf(h, v).kind = "date"
isRegExp(h, v) == ~isPrimitive(v) /\ ObjectOf(h, v).kind = "regex"

\* Object.getOwnPropertyNames: the attributes, and the accessor the closure
\* transform attaches to a function.
getOwnPropertyNames(o) ==
    [i \in 1..Len(o.attrs) |-> o.attrs[i].key]
    \o (IF o.hasClosure THEN <<"__closure">> ELSE <<>>)

\* Object.getOwnPropertyDescriptor, for a key of o.attrs.
getOwnPropertyDescriptor(o, key) ==
    LET i == CHOOSE j \in 1..Len(o.attrs) : o.attrs[j].key = key
    IN o.attrs[i]

\* -------------------------------------------------------------- the encoder
\* A content record.  Every kind has every field; refs is a sequence of
\* [key, ref]: an object's in insertion order, an array's by position.
Record(kind) ==
    [kind |-> kind, value |-> Undefined, name |-> "", source |-> 0,
     closure |-> -1, prototype |-> -1, refs |-> <<>>, descriptions |-> <<>>]

\* contentArray.push(undefined)
Unfilled == Record("undefined")

\* One call of add that serializing a value makes: its argument and the
\* field of the record that takes the index it returns.
AddCall(role, key, v) == [role |-> role, key |-> key, v |-> v]

\* The index of the first pair of indexMap whose element === v, if any.
Find(map, v) ==
    IF \E i \in 1..Len(map) : map[i].element = v
    THEN Some(map[CHOOSE i \in 1..Len(map) :
                     /\ map[i].element = v
                     /\ \A j \in 1..(i - 1) : map[j].element # v].index)
    ELSE None

\* The keys serializeProperties visits: all but __closure.
PropertyKeys(o) ==
    SelectSeq(getOwnPropertyNames(o), LAMBDA k : k # "__closure")

\* The calls of add serializeProperties makes for the given keys, in order.
RECURSIVE PropertyAdds(_, _)
PropertyAdds(o, keys) ==
    IF keys = <<>> THEN <<>>
    ELSE LET key == Head(keys)
             desc == getOwnPropertyDescriptor(o, key)
             these ==
                IF desc.style = "data" /\ desc.configurable /\ desc.writable
                   /\ desc.enumerable
                THEN <<AddCall("ref", key, desc.value)>>
                ELSE (IF desc.get # Undefined
                      THEN <<AddCall("get", key, desc.get)>> ELSE <<>>)
                     \o (IF desc.set # Undefined
                         THEN <<AddCall("set", key, desc.set)>> ELSE <<>>)
                     \o (IF desc.style = "data"
                         THEN <<AddCall("value", key, desc.value)>> ELSE <<>>)
         IN these \o PropertyAdds(o, Tail(keys))

\* The calls of add that serialize(value) makes, in order.
AddCalls(h, v) ==
    IF getNameOfBuiltin(v) # None \/ isPrimitive(v) THEN <<>>
    ELSE LET o == ObjectOf(h, v)
         IN CASE o.kind = "array" ->
                   [i \in 1..Len(o.elems) |-> AddCall("elem", "#", o.elems[i])]
              [] o.kind = "function" ->
                   <<AddCall("closure", "", Clo(Id(v))),
                     AddCall("prototype", "", o.prototype)>>
                   \o PropertyAdds(o, PropertyKeys(o))
              [] o.kind \in {"date", "regex"} -> <<>>
              [] OTHER ->
                   <<AddCall("prototype", "", o.proto)>>
                   \o PropertyAdds(o, PropertyKeys(o))

\* The index add returned for the call of the given role and key, if made.
Returned(calls, indices, role, key) ==
    IF \E i \in 1..Len(calls) : calls[i].role = role /\ calls[i].key = key
    THEN Some(indices[CHOOSE i \in 1..Len(calls) :
                         calls[i].role = role /\ calls[i].key = key])
    ELSE None

\* serializedDesc.writable is undefined when line 142 tests it, so line 143
\* never runs: the description carries no writable field.
SerializedWritable(desc) == None

\* serializeProperties: the refs and the descriptions of a record, from the
\* indices its calls of add returned.
serializeProperties(o, calls, indices, serializedValue) ==
    LET keys == PropertyKeys(o)
        isRef(k) == Returned(calls, indices, "ref", k) # None
        refKeys == SelectSeq(keys, isRef)
        descKeys == SelectSeq(keys, LAMBDA k : ~isRef(k))
    IN [serializedValue EXCEPT
          !.refs = [i \in 1..Len(refKeys) |->
                      [key |-> refKeys[i],
                       ref |-> Returned(calls, indices, "ref", refKeys[i])[1]]],
          !.descriptions = [i \in 1..Len(descKeys) |->
              LET k == descKeys[i]
                  desc == getOwnPropertyDescriptor(o, k)
              IN [key |-> k,
                  get |-> Returned(calls, indices, "get", k),
                  set |-> Returned(calls, indices, "set", k),
                  value |-> Returned(calls, indices, "value", k),
                  configurable |-> desc.configurable,
                  writable |-> SerializedWritable(desc),
                  enumerable |-> desc.enumerable]]]

serializeFunction(o, calls, indices) ==
    serializeProperties(o, calls, indices,
        [Record("function") EXCEPT
           !.source = o.source,
           !.closure = Returned(calls, indices, "closure", "")[1],
           !.prototype = Returned(calls, indices, "prototype", "")[1]])

serializeObject(o, calls, indices) ==
    serializeProperties(o, calls, indices,
        [Record("object") EXCEPT
           !.prototype = Returned(calls, indices, "prototype", "")[1]])

\* JSON.stringify of a date, and toString of a regular expression: the text
\* that names it.
DateText(o) == o.text
RegexText(o) == o.text

\* serialize (private): the content record of a value, from the indices its
\* calls of add returned.
serialize(h, v, indices) ==
    LET calls == AddCalls(h, v)
        builtinName == getNameOfBuiltin(v)
    IN IF builtinName # None
       THEN [Record("builtin") EXCEPT !.name = builtinName[1]]
       ELSE IF isPrimitive(v) THEN [Record("primitive") EXCEPT !.value = v]
       ELSE IF isArray(h, v)
       THEN [Record("array") EXCEPT
               !.refs = [i \in 1..Len(indices) |-> [key |-> "#", ref |-> indices[i]]]]
       ELSE IF isFunction(h, v)
       THEN serializeFunction(ObjectOf(h, v), calls, indices)
       ELSE IF isDate(h, v)
       THEN [Record("date") EXCEPT !.value = <<"text", DateText(ObjectOf(h, v))>>]
       ELSE IF isRegExp(h, v)
       THEN [Record("regex") EXCEPT !.value = <<"text", RegexText(ObjectOf(h, v))>>]
       ELSE serializeObject(ObjectOf(h, v), calls, indices)

\* A plausible slip: the length is read after the push of line 68.
NewIndexAfterPush(content) == Len(content) + 1

\* let index = this.contentArray.length, line 67.
NewIndex(content) == Len(content)

\* An activation of add that has reserved its index and is serializing.
AddFrame(v, index, calls) ==
    [value |-> v, index |-> index, calls |-> calls, indices |-> <<>>]

Top == stack[Len(stack)]
Pop == SubSeq(stack, 1, Len(stack) - 1)
SetTop(f) == [stack EXCEPT ![Len(stack)] = f]

\* SerializedGraph.serialize(value): a new graph, and the call of add.
Serialize ==
    /\ pc = "start"
    /\ pc' = "serialize"
    /\ stack' = <<AddFrame(Undefined, -1, <<AddCall("root", "", value)>>)>>
    /\ UNCHANGED <<heap, value, indexMap, rootIndex, contentArray, origin,
                   json, objects, result, error, reads>>

\* add, lines 61-65: the value is in the graph already.
AddHit ==
    /\ pc = "serialize"
    /\ Top.calls # <<>>
    /\ Find(indexMap, Head(Top.calls).v) # None
    /\ LET index == Find(indexMap, Head(Top.calls).v)[1]
       IN stack' = SetTop([Top EXCEPT !.calls = Tail(@),
                                        !.indices = Append(@, index)])
    /\ UNCHANGED <<heap, value, indexMap, rootIndex, contentArray, pc, origin,
                   json, objects, result, error, reads>>

\* add, lines 67-70: reserve the index, register the value, then serialize.
AddNew ==
    /\ pc = "serialize"
    /\ Top.calls # <<>>
    /\ Find(indexMap, Head(Top.calls).v) = None
    /\ LET v == Head(Top.calls).v
           index == NewIndex(contentArray)
       IN /\ contentArray' = Append(contentArray, Unfilled)
          /\ indexMap' = Append(indexMap, [element |-> v, index |-> index])
          /\ stack' = Append(stack, AddFrame(v, index, AddCalls(heap, v)))
    /\ UNCHANGED <<heap, value, rootIndex, pc, origin, json, objects, result,
                   error, reads>>

\* add, lines 70-71: store the record and return the index; serialize
\* (static), lines 27-28, when the call was the root's.
AddReturn ==
    /\ pc = "serialize"
    /\ Len(stack) > 1
    /\ Top.calls = <<>>
    /\ contentArray' = [contentArray EXCEPT
                          ![Top.index + 1] = serialize(heap, Top.value, Top.indices)]
    /\ IF Len(stack) = 2
       THEN /\ rootIndex' = Top.index
            /\ stack' = <<>>
            /\ pc' = "graph"
       ELSE /\ stack' = [Pop EXCEPT ![Len(stack) - 1] =
                           [@ EXCEPT !.calls = Tail(@),
                                     !.indices = Append(@, Top.index)]]
            /\ UNCHANGED <<rootIndex, pc>>
    /\ UNCHANGED <<heap, value, indexMap, origin, json, objects, result,
                   error, reads>>

\* ------------------------------------------------------- the JSON boundary
\* toJSON, lines 45-50.
toJSON == [root |-> rootIndex, data |-> contentArray]

\* Documents that no serialize of this model wrote: a builtin this registry
\* does not know inside an array, inside an object and inside a function's
\* closure, a record of a kind that is none of the seven, and an index
\* past the end of data.
ForeignDocuments ==
    LET unknown == [Record("builtin") EXCEPT !.name = "process"]
        known == [Record("builtin") EXCEPT !.name = "Object.prototype"]
        elem(i) == [key |-> "#", ref |-> i]
    IN {[root |-> 0,
         data |-> <<[Record("array") EXCEPT !.refs = <<elem(1)>>], unknown>>],
        [root |-> 0,
         data |-> <<[Record("object") EXCEPT
                       !.prototype = 1, !.refs = <<[key |-> "a", ref |-> 2]>>],
                    known, unknown>>],
        [root |-> 0,
         data |-> <<[Record("function") EXCEPT !.closure = 1, !.prototype = 2],
                    [Record("object") EXCEPT
                       !.prototype = 3, !.refs = <<[key |-> "x", ref |-> 2]>>],
                    unknown, known>>],
        [root |-> 0,
         data |-> <<[Record("array") EXCEPT !.refs = <<elem(0), elem(1)>>],
                    Record("symbol")>>],
        [root |-> 0,
         data |-> <<[Record("array") EXCEPT !.refs = <<elem(1)>>]>>]}

\* The caller takes the JSON of the graph serialize returned.
ToJSON ==
    /\ pc = "graph"
    /\ origin = "serialize"
    /\ reads = 0
    /\ json = None
    /\ json' = Some(toJSON)
    /\ UNCHANGED <<heap, value, indexMap, rootIndex, contentArray, stack, pc,
                   origin, objects, result, error, reads>>

\* fromJSON, lines 35-40: a new graph over the document's root and data.
\* The document is the one toJSON returned, or, in a process that has
\* nothing of its own to serialize, a foreign one.
FromJSON ==
    /\ \E doc \in (IF pc = "graph" /\ origin = "serialize" /\ json # None
                   THEN {json[1]}
                   ELSE IF pc = "start" /\ heap = <<>> /\ value = Undefined
                   THEN ForeignDocuments ELSE {}) :
          /\ indexMap' = <<>>
          /\ rootIndex' = doc.root
          /\ contentArray' = doc.data
          /\ origin' = IF pc = "start" THEN "foreign" ELSE "json"
    /\ pc' = "graph"
    /\ reads' = 0
    /\ result' = None
    /\ error' = ""
    /\ UNCHANGED <<heap, value, stack, json, objects>>

\* -------------------------------------------------------------- the decoder
\* One step of get's body for a record: a call of get whose result goes to
\* a slot, or a statement between two calls.
Op(op, slot, key, ref) == [op |-> op, slot |-> slot, key |-> key, ref |-> ref]

\* if (desc.get), if (desc.set), if (desc.value): lines 299, 302, 305.
Truthy(field) == field # None /\ field[1] # 0

\* deserializeProperties: the calls of get and the defineProperty of each
\* description, in order.
RECURSIVE DescriptionOps(_)
DescriptionOps(descriptions) ==
    IF descriptions = <<>> THEN <<>>
    ELSE LET desc == Head(descriptions)
         IN (IF Truthy(desc.get)
             THEN <<Op("get", "get", desc.key, desc.get[1])>> ELSE <<>>)
            \o (IF Truthy(desc.set)
                THEN <<Op("get", "set", desc.key, desc.set[1])>> ELSE <<>>)
            \o (IF Truthy(desc.value)
                THEN <<Op("get", "value", desc.key, desc.value[1])>> ELSE <<>>)
            \o <<Op("define", "", desc.key, Len(descriptions))>>
            \o DescriptionOps(Tail(descriptions))

\* A plausible slip: the loop over refs of lines 292-294 is left out.
deserializePropertiesNoRefs(rec) == DescriptionOps(rec.descriptions)

deserializeProperties(rec) ==
    [i \in 1..Len(rec.refs) |-> Op("get", "ref", rec.refs[i].key, rec.refs[i].ref)]
    \o DescriptionOps(rec.descriptions)

\* What get does for a record once past the index map, lines 213-283.
GetOps(rec) ==
    CASE rec.kind = "array" ->
           [i \in 1..Len(rec.refs) |-> Op("get", "elem", "#", rec.refs[i].ref)]
      [] rec.kind = "object" ->
           <<Op("get", "proto", "", rec.prototype), Op("create", "", "", 0)>>
           \o deserializeProperties(rec)
      [] rec.kind = "function" ->
           <<Op("get", "closure", "", rec.closure), Op("eval", "", "", 0),
             Op("get", "prototype", "", rec.prototype), Op("patch", "", "", 0)>>
           \o deserializeProperties(rec)
      [] OTHER -> <<>>

\* The fields of parsedDesc that get has resolved so far.
NoFields == [get |-> None, set |-> None, value |-> None]

\* An activation of get: the index, the value under construction, what is
\* left to do, the value a call just returned, and the implementation.
GetFrame(index, self, ops) ==
    [index |-> index, self |-> self, ops |-> ops, tmp |-> Undefined,
     impl |-> Undefined, fields |-> NoFields]

\* The element of the first pair of indexMap with the given index, if any.
Lookup(map, index) ==
    IF \E i \in 1..Len(map) : map[i].index = index
    THEN Some(map[CHOOSE i \in 1..Len(map) :
                     /\ map[i].index = index
                     /\ \A j \in 1..(i - 1) : map[j].index # index].element)
    ELSE None

\* The record at an index; contentArray[valueIndex] is undefined outside.
RecordAt(index) ==
    IF index >= 0 /\ index < Len(contentArray)
    THEN contentArray[index + 1] ELSE Unfilled

OwnAttrs(o, key) == SelectSeq(o.attrs, LAMBDA a : a.key = key)

\* attrs with the attribute of a's key replaced, or with a appended.
WithAttr(attrs, a) ==
    IF \E i \in 1..Len(attrs) : attrs[i].key = a.key
    THEN [i \in 1..Len(attrs) |-> IF attrs[i].key = a.key THEN a ELSE attrs[i]]
    ELSE Append(attrs, a)

\* The attribute a lookup of key finds along the inheritance chain from v.
RECURSIVE Inherited(_, _, _)
Inherited(objs, v, key) ==
    IF Tag(v) # "new" THEN None
    ELSE IF OwnAttrs(objs[Id(v)], key) # <<>>
    THEN Some(OwnAttrs(objs[Id(v)], key)[1])
    ELSE Inherited(objs, objs[Id(v)].proto, key)

Outcome(objs, thrown) == [objects |-> objs, thrown |-> thrown]

\* deserializedValue[key] = v, line 293, in strict code: an assignment.
Assign(objs, self, key, v) ==
    LET o == objs[Id(self)]
        found == Inherited(objs, self, key)
        own == OwnAttrs(o, key) # <<>>
        plain == [objs EXCEPT ![Id(self)].attrs = WithAttr(@, PlainAttr(key, v))]
    IN IF found = None THEN Outcome(plain, "")
       ELSE IF found[1].style = "accessor"
       THEN IF found[1].set = Undefined
            THEN Outcome(objs, "TypeError") ELSE Outcome(objs, "")
       ELSE IF ~found[1].writable THEN Outcome(objs, "TypeError")
       ELSE IF own
       THEN Outcome([objs EXCEPT ![Id(self)].attrs =
                       WithAttr(@, [found[1] EXCEPT !.value = v])], "")
       ELSE Outcome(plain, "")

Callable(objs, v) == Tag(v) = "new" /\ objs[Id(v)].kind = "function"

\* A field of parsedDesc, lines 298-307: absent, or the spread's index when
\* the test of the field was false, or what get returned.
Parsed(field, resolved) ==
    IF field = None THEN None
    ELSE IF Truthy(field) THEN resolved ELSE Some(Num(field[1]))

\* Object.defineProperty(deserializedValue, key, parsedDesc), line 308.
defineProperty(objs, self, desc, fields) ==
    LET g == Parsed(desc.get, fields.get)
        st == Parsed(desc.set, fields.set)
        v == Parsed(desc.value, fields.value)
        accessor == g # None \/ st # None
        data == v # None \/ desc.writable # None
        old == OwnAttrs(objs[Id(self)], desc.key)
        or(field, default) == IF field = None THEN default ELSE field[1]
        writable ==
            IF desc.writable # None THEN desc.writable[1]
            ELSE IF old # <<>> /\ old[1].style = "data" THEN old[1].writable
            ELSE FALSE
        attr ==
            IF accessor
            THEN Attr(desc.key, "accessor", Undefined, or(g, Undefined),
                      or(st, Undefined), desc.configurable, FALSE, desc.enumerable)
            ELSE Attr(desc.key, "data", or(v, Undefined), Undefined, Undefined,
                      desc.configurable, writable, desc.enumerable)
    IN IF accessor /\ data THEN Outcome(objs, "TypeError")
       ELSE IF \E f \in {g, st} :
                  f # None /\ f[1] # Undefined /\ ~Callable(objs, f[1])
       THEN Outcome(objs, "TypeError")
       ELSE Outcome([objs EXCEPT ![Id(self)].attrs = WithAttr(@, attr)], "")

\* for (let key in deserializedClosure), lines 247-250: the enumerable
\* attributes, own before inherited, with the values a read of each gives.
RECURSIVE Enumerate(_, _, _)
Enumerate(objs, v, seen) ==
    IF Tag(v) # "new" THEN <<>>
    ELSE LET o == objs[Id(v)]
             own == SelectSeq(o.attrs, LAMBDA a : a.key \notin seen)
             shown == SelectSeq(own, LAMBDA a : a.enumerable)
         IN [i \in 1..Len(shown) |->
               [key |-> shown[i].key,
                value |-> IF shown[i].style = "data"
                          THEN shown[i].value ELSE Undefined]]
            \o Enumerate(objs, o.proto,
                         seen \cup {o.attrs[i].key : i \in 1..Len(o.attrs)})

\* The effect of a call of get returning v to the activation on top of stk.
Deliver(stk, objs, v) ==
    LET f == stk[Len(stk)]
        op == Head(f.ops)
        rest == [f EXCEPT !.ops = Tail(@)]
        put(g, o, t) == [stack |-> [stk EXCEPT ![Len(stk)] = g],
                         objects |-> o, thrown |-> t]
    IN CASE op.slot = "elem" ->
              put(rest, [objs EXCEPT ![Id(f.self)].elems = Append(@, v)], "")
         [] op.slot = "ref" ->
              LET out == Assign(objs, f.self, op.key, v)
              IN put(rest, out.objects, out.thrown)
         [] op.slot = "prototype" ->
              put(rest, [objs EXCEPT ![Id(f.impl)].prototype = v], "")
         [] op.slot \in {"get", "set", "value"} ->
              put([rest EXCEPT !.fields[op.slot] = Some(v)], objs, "")
         [] OTHER -> put([rest EXCEPT !.tmp = v], objs, "")

\* The read of the root property, lines 315-317.
Root ==
    /\ pc = "graph"
    /\ reads < MaxReads
    /\ pc' = "root"
    /\ reads' = reads + 1
    /\ stack' = <<GetFrame(-1, Undefined, <<Op("get", "root", "", rootIndex)>>)>>
    /\ result' = None
    /\ error' = ""
    /\ UNCHANGED <<heap, value, indexMap, rootIndex, contentArray, origin,
                   json, objects>>

\* The next thing the innermost activation does is a call of get.
Calling == pc = "root" /\ Top.ops # <<>> /\ Head(Top.ops).op = "get"

\* An error leaves every activation; the graph's fields stay as they are.
Raise(name) ==
    /\ stack' = <<>>
    /\ pc' = "graph"
    /\ error' = name
    /\ result' = None

\* The activation on top goes on with what a call of get returned.
Continue(objs, v) ==
    LET out == Deliver(stack, objs, v)
    IN IF out.thrown # ""
       THEN Raise(out.thrown) /\ objects' = out.objects
       ELSE /\ stack' = out.stack
            /\ objects' = out.objects
            /\ UNCHANGED <<pc, error, result>>

\* get, lines 205-209: the index is in the index map.
GetHit ==
    /\ Calling
    /\ Lookup(indexMap, Head(Top.ops).ref) # None
    /\ Continue(objects, Lookup(indexMap, Head(Top.ops).ref)[1])
    /\ UNCHANGED <<heap, value, indexMap, rootIndex, contentArray, origin,
                   json, reads>>

Missing == Calling /\ Lookup(indexMap, Head(Top.ops).ref) = None

Register(v, index) == Append(indexMap, [element |-> v, index |-> index])

\* JSON.parse of a date's text, eval of a regular expression's.
ParseText(text) == text[2]

\* get, lines 213-215, 263-280: a primitive, a known builtin, a date or a
\* regular expression is made, registered and returned.
GetLeaf ==
    /\ Missing
    /\ LET index == Head(Top.ops).ref
           rec == RecordAt(index)
       IN /\ \/ rec.kind \in {"primitive", "date", "regex"}
             \/ rec.kind = "builtin" /\ getBuiltinByName(rec.name) # None
          /\ LET made == rec.kind \in {"date", "regex"}
                 v == CASE rec.kind = "primitive" -> rec.value
                        [] rec.kind = "builtin" -> getBuiltinByName(rec.name)[1]
                        [] OTHER -> New(Len(objects) + 1)
                 objs == IF made
                         THEN Append(objects, [Object(rec.kind) EXCEPT
                                                 !.text = ParseText(rec.value)])
                         ELSE objects
             IN /\ indexMap' = Register(v, index)
                /\ Continue(objs, v)
    /\ UNCHANGED <<heap, value, rootIndex, contentArray, origin, json, reads>>

\* get, lines 216-223: the empty array is registered, then filled.
GetArray ==
    /\ Missing
    /\ LET index == Head(Top.ops).ref
           rec == RecordAt(index)
           results == New(Len(objects) + 1)
       IN /\ rec.kind = "array"
          /\ objects' = Append(objects, Object("array"))
          /\ indexMap' = Register(results, index)
          /\ stack' = Append(stack, GetFrame(index, results, GetOps(rec)))
    /\ UNCHANGED <<heap, value, rootIndex, contentArray, pc, origin, json,
                   result, error, reads>>

\* get, line 228: an object's prototype is read before anything is
\* registered.
GetObject ==
    /\ Missing
    /\ LET index == Head(Top.ops).ref
           rec == RecordAt(index)
       IN /\ rec.kind = "object"
          /\ stack' = Append(stack, GetFrame(index, Undefined, GetOps(rec)))
    /\ UNCHANGED <<heap, value, indexMap, rootIndex, contentArray, pc, origin,
                   json, objects, result, error, reads>>

\* get, lines 238-241: the thunk is registered before its closure is read.
GetFunction ==
    /\ Missing
    /\ LET index == Head(Top.ops).ref
           rec == RecordAt(index)
           thunk == New(Len(objects) + 1)
       IN /\ rec.kind = "function"
          /\ objects' = Append(objects, Object("function"))
          /\ indexMap' = Register(thunk, index)
          /\ stack' = Append(stack, GetFrame(index, thunk, GetOps(rec)))
    /\ UNCHANGED <<heap, value, rootIndex, contentArray, pc, origin, json,
                   result, error, reads>>

\* get, lines 266 and 282, and the read of kind of an undefined record.
GetThrow ==
    /\ Missing
    /\ LET rec == RecordAt(Head(Top.ops).ref)
       IN \/ /\ rec.kind = "builtin"
             /\ getBuiltinByName(rec.name) = None
             /\ Raise("unknown builtin")
          \/ /\ rec.kind \notin {"primitive", "array", "object", "function",
                                 "builtin", "date", "regex", "undefined"}
             /\ Raise("unrecognized content kind")
          \/ /\ rec.kind = "undefined"
             /\ Raise("TypeError")
    /\ UNCHANGED <<heap, value, indexMap, rootIndex, contentArray, origin,
                   json, objects, reads>>

Doing(op) == pc = "root" /\ Top.ops # <<>> /\ Head(Top.ops).op = op

\* get, lines 228-229: Object.create of the prototype, then the push.
Create ==
    /\ Doing("create")
    /\ IF isPrimitive(Top.tmp) /\ Top.tmp # Null
       THEN Raise("TypeError") /\ UNCHANGED <<indexMap, objects>>
       ELSE LET results == New(Len(objects) + 1)
            IN /\ objects' = Append(objects,
                                    [Object("object") EXCEPT !.proto = Top.tmp])
               /\ indexMap' = Register(results, Top.index)
               /\ stack' = SetTop([Top EXCEPT !.ops = Tail(@), !.self = results])
               /\ UNCHANGED <<pc, error, result>>
    /\ UNCHANGED <<heap, value, rootIndex, contentArray, origin, json, reads>>

\* get, lines 245-254: the implementation, made from the source and the
\* captured variables read off the closure.
Eval ==
    /\ Doing("eval")
    /\ LET impl == New(Len(objects) + 1)
       IN /\ objects' = Append(objects,
                [Object("function") EXCEPT
                   !.source = RecordAt(Top.index).source,
                   !.captured = Enumerate(objects, Top.tmp, {})])
          /\ stack' = SetTop([Top EXCEPT !.ops = Tail(@), !.impl = impl])
    /\ UNCHANGED <<heap, value, indexMap, rootIndex, contentArray, pc, origin,
                   json, result, error, reads>>

\* get, lines 258-259: the thunk gets its implementation and prototype.
Patch ==
    /\ Doing("patch")
    /\ objects' = [objects EXCEPT
                     ![Id(Top.self)].impl = Top.impl,
                     ![Id(Top.self)].prototype = objects[Id(Top.impl)].prototype]
    /\ stack' = SetTop([Top EXCEPT !.ops = Tail(@)])
    /\ UNCHANGED <<heap, value, indexMap, rootIndex, contentArray, pc, origin,
                   json, result, error, reads>>

\* deserializeProperties, lines 298-308: one description is installed.
Define ==
    /\ Doing("define")
    /\ LET rec == RecordAt(Top.index)
           desc == rec.descriptions[Len(rec.descriptions) - Head(Top.ops).ref + 1]
           out == defineProperty(objects, Top.self, desc, Top.fields)
       IN IF out.thrown # ""
          THEN Raise(out.thrown) /\ UNCHANGED objects
          ELSE /\ objects' = out.objects
               /\ stack' = SetTop([Top EXCEPT !.ops = Tail(@), !.fields = NoFields])
               /\ UNCHANGED <<pc, error, result>>
    /\ UNCHANGED <<heap, value, indexMap, rootIndex, contentArray, origin,
                   json, reads>>

\* get returns the value it built to the activation that called it.
GetReturn ==
    /\ pc = "root"
    /\ Len(stack) > 1
    /\ Top.ops = <<>>
    /\ LET out == Deliver(Pop, objects, Top.self)
       IN IF out.thrown # ""
          THEN Raise(out.thrown) /\ objects' = out.objects
          ELSE /\ stack' = out.stack
               /\ objects' = out.objects
               /\ UNCHANGED <<pc, error, result>>
    /\ UNCHANGED <<heap, value, indexMap, rootIndex, contentArray, origin,
                   json, reads>>

\* root returns what get(rootIndex) returned.
RootReturn ==
    /\ pc = "root"
    /\ Len(stack) = 1
    /\ Top.ops = <<>>
    /\ result' = Some(Top.tmp)
    /\ stack' = <<>>
    /\ pc' = "graph"
    /\ UNCHANGED <<heap, value, indexMap, rootIndex, contentArray, origin,
                   json, objects, error, reads>>

\* The value handed to serialize is h, of n objects, with k more objects
\* of total size at most b.
RECURSIVE Given(_, _, _, _)
Given(h, k, n, b) ==
    IF k = 0 THEN WellFormed(h) /\ heap = h /\ value = Obj(1)
    ELSE \E size \in 1..(b - (k - 1)) : \E o \in Shapes(n, size) :
            Given(Append(h, o), k - 1, n, b - size)

\* The state after construction, before serialize(value): value is a
\* well-known value, or the first object of a heap of at most MaxObj
\* objects and of size at most MaxSize.
Init ==
    /\ \/ heap = <<>> /\ value \in {Null, Prim, Undefined, ObjectPrototype}
       \/ \E n \in 1..MaxObj : Given(<<>>, n, n, MaxSize)
    /\ indexMap = <<>>
    /\ rootIndex = -1
    /\ contentArray = <<>>
    /\ stack = <<>>
    /\ pc = "start"
    /\ origin = "serialize"
    /\ json = None
    /\ objects = <<>>
    /\ result = None
    /\ error = ""
    /\ reads = 0

Next ==
    \/ Serialize \/ AddHit \/ AddNew \/ AddReturn
    \/ ToJSON \/ FromJSON
    \/ Root \/ GetHit \/ GetLeaf \/ GetArray \/ GetObject \/ GetFunction
    \/ GetThrow \/ Create \/ Eval \/ Patch \/ Define \/ GetReturn \/ RootReturn
Spec == Init /\ [][Next]_vars

\* ------------------------------------------- the two graphs, side by side
\* A read of root has returned on the graph fromJSON made of toJSON's value.
RoundTripped == origin = "json" /\ pc = "graph" /\ reads >= 1 /\ result # None

Link(kind, key, n, target) == <<<<kind, key, n>>, target>>

AttrLinks(attrs) ==
    UNION {{Link("attr.value", attrs[i].key, 0, attrs[i].value),
            Link("attr.get", attrs[i].key, 0, attrs[i].get),
            Link("attr.set", attrs[i].key, 0, attrs[i].set)} :
             i \in 1..Len(attrs)}

\* The references an object holds, each under the name of its place.
Links(o, captured) ==
    {Link("elem", "", i, o.elems[i]) : i \in 1..Len(o.elems)}
    \cup AttrLinks(o.attrs)
    \cup {Link("captured", captured[i].key, 0, captured[i].value) :
            i \in 1..Len(captured)}
    \cup (IF o.kind = "function" THEN {Link("prototype", "", 0, o.prototype)}
          ELSE IF o.kind = "object" THEN {Link("proto", "", 0, o.proto)}
          ELSE {})

SourceLinks(v) ==
    IF Tag(v) = "obj" THEN Links(heap[Id(v)], heap[Id(v)].captured) ELSE {}

\* A decoded function is its thunk; the captured variables are those of the
\* implementation the thunk forwards to.
DecodedLinks(v) ==
    IF Tag(v) # "new" THEN {}
    ELSE LET o == objects[Id(v)]
         IN Links(o, IF Tag(o.impl) = "new"
                     THEN objects[Id(o.impl)].captured ELSE <<>>)

\* The pairs (value of the source, value of the result) found by following
\* the same references from the two roots.
Following(p) ==
    {<<x[1][2], x[2][2]>> :
       x \in {y \in SourceLinks(p[1]) \X DecodedLinks(p[2]) : y[1][1] = y[2][1]}}

RECURSIVE Pairs(_)
Pairs(S) ==
    LET T == S \cup UNION {Following(p) : p \in S}
    IN IF T = S THEN S ELSE Pairs(T)

Correspondence == Pairs({<<value, result[1]>>})

\* --------------------------------------------------------------- the claims
\* C1: identity sharing is preserved by a round trip: the references that
\* reach one identity of the value graph reach one identity of the value
\* read back from the JSON of serialize's graph.
C1_IdentitySharing ==
    RoundTripped =>
       \A p \in Correspondence : \A q \in Correspondence :
          (Tag(p[1]) = "obj" /\ p[1] = q[1]) => p[2] = q[2]

\* C9: decode memoization: the index map never holds two different values
\* for one index.
C9_OneValuePerIndex ==
    \A i \in 1..Len(indexMap) : \A j \in 1..Len(indexMap) :
       indexMap[i].index = indexMap[j].index
          => indexMap[i].element = indexMap[j].element

\* The attribute of a decoded value with the given key, if it has one.
Installed(v, key) ==
    IF Tag(v) = "new" THEN OwnAttrs(objects[Id(v)], key) ELSE <<>>

\* The root of the value graph is an array that holds itself.
SelfArray ==
    /\ value = Obj(1) /\ Len(heap) >= 1 /\ heap[1].kind = "array"
    /\ \E i \in 1..Len(heap[1].elems) : heap[1].elems[i] = Obj(1)

\* The root of the value graph is an object with an attribute whose value
\* is the object.
SelfObject ==
    /\ value = Obj(1) /\ Len(heap) >= 1 /\ heap[1].kind = "object"
    /\ \E i \in 1..Len(heap[1].attrs) :
          heap[1].attrs[i].style = "data" /\ heap[1].attrs[i].value = Obj(1)

\* C2: cycle safety: a self-referential array and a self-referential object
\* are read back with the same self-reference: the element, the attribute,
\* is the value read back itself.
C2_CycleSafety ==
    (origin = "json" /\ pc = "graph" /\ reads >= 1) =>
       /\ SelfArray =>
             /\ result # None /\ Tag(result[1]) = "new"
             /\ \A i \in 1..Len(heap[1].elems) :
                   heap[1].elems[i] = Obj(1) =>
                      /\ i <= Len(objects[Id(result[1])].elems)
                      /\ objects[Id(result[1])].elems[i] = result[1]
       /\ SelfObject =>
             /\ result # None
             /\ \A i \in 1..Len(heap[1].attrs) :
                   (heap[1].attrs[i].style = "data"
                      /\ heap[1].attrs[i].value = Obj(1)) =>
                      /\ Installed(result[1], heap[1].attrs[i].key) # <<>>
                      /\ Installed(result[1], heap[1].attrs[i].key)[1].value
                            = result[1]

\* C3: attribute descriptor fidelity: an attribute that is not a plain
\* configurable, writable, enumerable data attribute is read back with the
\* same three flags and the same style.
C3_DescriptorFidelity ==
    RoundTripped =>
       \A p \in Correspondence :
          (Tag(p[1]) = "obj" /\ Tag(p[2]) = "new") =>
             \A i \in 1..Len(heap[Id(p[1])].attrs) :
                LET a == heap[Id(p[1])].attrs[i]
                    b == Installed(p[2], a.key)
                IN ~IsPlain(a) =>
                      /\ b # <<>>
                      /\ b[1].style = a.style
                      /\ b[1].configurable = a.configurable
                      /\ b[1].writable = a.writable
                      /\ b[1].enumerable = a.enumerable

\* Whether a decoded value has all that its record gives it.
Finished(v, rec) ==
    Tag(v) = "new" =>
       LET o == objects[Id(v)]
           keys == {rec.refs[i].key : i \in 1..Len(rec.refs)}
                   \cup {rec.descriptions[i].key : i \in 1..Len(rec.descriptions)}
       IN CASE rec.kind = "array" -> Len(o.elems) = Len(rec.refs)
            [] rec.kind = "object" -> \A k \in keys : OwnAttrs(o, k) # <<>>
            [] rec.kind = "function" ->
                  o.impl # Undefined /\ \A k \in keys : OwnAttrs(o, k) # <<>>
            [] OTHER -> TRUE

\* C4: a failed decode yields no usable partial value: no read of root, the
\* failed one or a later one, returns an unfinished array, object or thunk.
C4_NoPartialValue ==
    (pc = "graph" /\ result # None) => Finished(result[1], RecordAt(rootIndex))

\* C5: the index map of one serialize or of one read of root is private to
\* that call: a read of root starts from an empty table, and on the graph
\* serialize returned it reconstructs the value from the content records.
C5_PrivateTable ==
    /\ (pc = "root" /\ Len(stack) = 1 /\ Top.ops # <<>>) => indexMap = <<>>
    /\ (pc = "graph" /\ result # None) => Tag(result[1]) \notin {"obj", "clo"}

\* Plain acyclic data: numbers, strings, booleans, null, and arrays and
\* plain objects of them, nested at most n deep.
RECURSIVE PlainData(_, _)
PlainData(v, n) ==
    \/ v \in {Null, Prim}
    \/ /\ Tag(v) = "obj" /\ n > 0
       /\ LET o == heap[Id(v)]
          IN \/ /\ o.kind = "array"
                /\ \A i \in 1..Len(o.elems) : PlainData(o.elems[i], n - 1)
             \/ /\ o.kind = "object" /\ o.proto = ObjectPrototype
                /\ \A i \in 1..Len(o.attrs) :
                      IsPlain(o.attrs[i]) /\ PlainData(o.attrs[i].value, n - 1)

\* Deep equality of a plain value and a decoded value: the same primitive,
\* or arrays of the same length with equal elements in order, or plain
\* objects with the same attribute names and equal values.
RECURSIVE DeepEqual(_, _, _)
DeepEqual(v, d, n) ==
    IF isPrimitive(v) THEN d = v
    ELSE /\ Tag(d) = "new" /\ n > 0
         /\ LET o == heap[Id(v)]
                e == objects[Id(d)]
            IN /\ o.kind = e.kind
               /\ Len(o.elems) = Len(e.elems)
               /\ \A i \in 1..Len(o.elems) :
                     DeepEqual(o.elems[i], e.elems[i], n - 1)
               /\ o.kind = "object" => e.proto = ObjectPrototype
               /\ {o.attrs[i].key : i \in 1..Len(o.attrs)}
                     = {e.attrs[i].key : i \in 1..Len(e.attrs)}
               /\ \A i \in 1..Len(o.attrs) :
                     LET b == OwnAttrs(e, o.attrs[i].key)
                     IN /\ b # <<>>
                        /\ IsPlain(b[1])
                        /\ DeepEqual(o.attrs[i].value, b[1].value, n - 1)

\* A read of root on the graph made of serialize's JSON has ended.
ReadBack == origin = "json" /\ pc = "graph" /\ reads >= 1

\* No attribute of the value graph is named __closure.
NoClosureKey ==
    \A i \in 1..Len(heap) : \A j \in 1..Len(heap[i].attrs) :
       heap[i].attrs[j].key # "__closure"

IndicesOf(rec) ==
    {rec.refs[i].ref : i \in 1..Len(rec.refs)}
    \cup (IF rec.kind \in {"object", "function"} THEN {rec.prototype} ELSE {})
    \cup (IF rec.kind = "function" THEN {rec.closure} ELSE {})
    \cup UNION {{f[1] : f \in {rec.descriptions[i].get, rec.descriptions[i].set,
                               rec.descriptions[i].value} \ {None}} :
                  i \in 1..Len(rec.descriptions)}

\* The graph serialize returned: the root and every stored index are
\* indices of data, and every position holds a record.
GraphValid ==
    (pc = "graph" /\ origin = "serialize") =>
       /\ rootIndex \in 0..(Len(contentArray) - 1)
       /\ \A i \in 1..Len(contentArray) :
             /\ contentArray[i].kind # "undefined"
             /\ IndicesOf(contentArray[i]) \subseteq 0..(Len(contentArray) - 1)

\* One step of the encoder: the content array and the index map only grow,
\* a stored record stays, and an index stays with its identity.
AppendOnly ==
    pc = "serialize" =>
       /\ Len(contentArray') >= Len(contentArray)
       /\ Len(indexMap') >= Len(indexMap)
       /\ \A i \in 1..Len(indexMap) : indexMap'[i] = indexMap[i]
       /\ \A i \in 1..Len(contentArray) :
             contentArray[i].kind # "undefined" => contentArray'[i] = contentArray[i]
       /\ \A i \in 1..Len(indexMap') : \A j \in 1..Len(indexMap') :
             indexMap'[i].index = indexMap'[j].index => i = j

\* C7: graph index validity: in the graph serialize returns the root index
\* and every stored index lie in 0..length-1 and every position is filled,
\* and while encoding the content array only grows and no index is given
\* to a second identity.
C7_IndexValidity == [][GraphValid' /\ AppendOnly]_vars

\* C7's case: serialize has returned a graph of three records or more, one
\* of which refers back to the root.
C7_Witness ==
    /\ pc = "graph" /\ origin = "serialize" /\ Len(contentArray) >= 3
    /\ \E i \in 2..Len(contentArray) : 0 \in IndicesOf(contentArray[i])

\* C8: attribute reconstruction resolves every descriptor field from its
\* index: the get, set and value of an installed descriptor are the values
\* the index map holds for the indices the description gives.
C8_DescriptorFields ==
    (pc = "graph" /\ result # None /\ origin # "serialize") =>
       \A e \in 1..Len(indexMap) :
          LET rec == RecordAt(indexMap[e].index)
          IN (Tag(indexMap[e].element) = "new"
                /\ rec.kind \in {"object", "function"}) =>
                \A i \in 1..Len(rec.descriptions) :
                   LET d == rec.descriptions[i]
                       b == Installed(indexMap[e].element, d.key)
                   IN /\ b # <<>>
                      /\ d.get # None => Some(b[1].get) = Lookup(indexMap, d.get[1])
                      /\ d.set # None => Some(b[1].set) = Lookup(indexMap, d.set[1])
                      /\ d.value # None
                            => Some(b[1].value) = Lookup(indexMap, d.value[1])

\* C10: a function record whose closure, prototype or attributes refer back
\* to the function's own index is decoded to a thunk with its implementation
\* installed, and every such back-reference is that thunk.
C10_FunctionPlaceholder ==
    LET rec == RecordAt(rootIndex)
        closure == RecordAt(rec.closure)
        back == rootIndex \in IndicesOf(closure) \cup IndicesOf(rec)
    IN (origin # "serialize" /\ pc = "graph" /\ reads >= 1
          /\ rec.kind = "function" /\ closure.kind = "object" /\ back) =>
          /\ result # None /\ Tag(result[1]) = "new"
          /\ LET thunk == objects[Id(result[1])]
                 captured == IF Tag(thunk.impl) = "new"
                             THEN objects[Id(thunk.impl)].captured ELSE <<>>
             IN /\ Tag(thunk.impl) = "new"
                /\ rec.prototype = rootIndex => thunk.prototype = result[1]
                /\ \A i \in 1..Len(closure.refs) :
                      closure.refs[i].ref = rootIndex =>
                         \E j \in 1..Len(captured) :
                            /\ captured[j].key = closure.refs[i].key
                            /\ captured[j].value = result[1]
                /\ \A i \in 1..Len(rec.refs) :
                      rec.refs[i].ref = rootIndex =>
                         /\ Installed(result[1], rec.refs[i].key) # <<>>
                         /\ Installed(result[1], rec.refs[i].key)[1].value
                               = result[1]
                /\ \A i \in 1..Len(rec.descriptions) :
                      LET d == rec.descriptions[i]
                          b == Installed(result[1], d.key)
                      IN /\ d.get = Some(rootIndex)
                            => b # <<>> /\ b[1].get = result[1]
                         /\ d.set = Some(rootIndex)
                            => b # <<>> /\ b[1].set = result[1]
                         /\ d.value = Some(rootIndex)
                            => b # <<>> /\ b[1].value = result[1]

====
